---- MODULE Spec2Model ----
(***************************************************************************)
(* Model of the excel-to-csv-utf8 converter: the command-line converter    *)
(* (src/convert_xls_to_csv.py) and the Flask upload service (src/app.py).  *)
(*                                                                         *)
(* Bytes are integers 0..255, texts are sequences of Unicode code points,  *)
(* file names are sequences of one-character strings.                      *)
(***************************************************************************)
EXTENDS Integers, Sequences, FiniteSets, TLC

(***************************************************************************)
(* Bounds of the model.                                                    *)
(***************************************************************************)
\* longest input file, in bytes, of the single-conversion specification
MaxLen == 4
\* most files uploaded by one POST /convert request
MaxFiles == 3
\* most entries of the batch input directory
MaxDir == 3

None == "None"

\* a path of a file system: the file there, or nothing
File(data, owner) == [exists |-> TRUE, data |-> data, owner |-> owner]
Absent == [exists |-> FALSE, data |-> <<>>, owner |-> None]

(***************************************************************************)
(* Text codecs (Python's bytes.decode / str.encode as the code calls them).*)
(***************************************************************************)
Undef == 0 - 1
REPLACEMENT == 65533

\* the Thai block shared by cp874, tis-620 and iso-8859-11
ThaiCp(b) ==
    IF b >= 161 /\ b <= 218 THEN 3585 + (b - 161)
    ELSE IF b >= 223 /\ b <= 251 THEN 3647 + (b - 223)
    ELSE Undef

Cp874Cp(b) ==
    IF b < 128 THEN b
    ELSE IF b = 128 THEN 8364
    ELSE IF b = 133 THEN 8230
    ELSE IF b = 145 THEN 8216
    ELSE IF b = 146 THEN 8217
    ELSE IF b = 147 THEN 8220
    ELSE IF b = 148 THEN 8221
    ELSE IF b = 149 THEN 8226
    ELSE IF b = 150 THEN 8211
    ELSE IF b = 151 THEN 8212
    ELSE IF b = 160 THEN 160
    ELSE ThaiCp(b)

Tis620Cp(b) == IF b < 160 THEN b ELSE ThaiCp(b)

Iso885911Cp(b) == IF b <= 160 THEN b ELSE ThaiCp(b)

\* the codecs Python's registry knows among the names the code passes
KnownCodecs == {"utf-8", "cp874", "tis-620", "iso-8859-11"}

CharmapCp(enc, b) ==
    CASE enc = "cp874" -> Cp874Cp(b)
      [] enc = "tis-620" -> Tis620Cp(b)
      [] enc = "iso-8859-11" -> Iso885911Cp(b)

\* number of continuation bytes a UTF-8 lead byte announces (Undef: no lead)
Utf8Need(b) ==
    IF b < 128 THEN 0
    ELSE IF b >= 194 /\ b <= 223 THEN 1
    ELSE IF b >= 224 /\ b <= 239 THEN 2
    ELSE IF b >= 240 /\ b <= 244 THEN 3
    ELSE Undef

\* whether c may stand at position k (1-based) after lead byte b
Utf8ContOk(b, k, c) ==
    IF k = 1 /\ b = 224 THEN c >= 160 /\ c <= 191
    ELSE IF k = 1 /\ b = 237 THEN c >= 128 /\ c <= 159
    ELSE IF k = 1 /\ b = 240 THEN c >= 144 /\ c <= 191
    ELSE IF k = 1 /\ b = 244 THEN c >= 128 /\ c <= 143
    ELSE c >= 128 /\ c <= 191

\* how many of the announced continuation bytes follow position i validly
RECURSIVE Utf8Run(_, _, _, _)
Utf8Run(bs, i, need, k) ==
    IF k > need \/ i + k > Len(bs) THEN k - 1
    ELSE IF Utf8ContOk(bs[i], k, bs[i + k]) THEN Utf8Run(bs, i, need, k + 1)
    ELSE k - 1

Utf8Lead(b, need) ==
    CASE need = 0 -> b
      [] need = 1 -> b - 192
      [] need = 2 -> b - 224
      [] need = 3 -> b - 240

RECURSIVE Utf8Acc(_, _, _, _)
Utf8Acc(bs, i, n, acc) ==
    IF n = 0 THEN acc ELSE Utf8Acc(bs, i + 1, n - 1, acc * 64 + (bs[i] - 128))

\* bytes.decode('utf-8', errors): strict raises at the first ill-formed
\* sequence, replace puts U+FFFD for each maximal ill-formed subpart
RECURSIVE Utf8From(_, _, _)
Utf8From(bs, i, replace) ==
    IF i > Len(bs) THEN [ok |-> TRUE, text |-> <<>>]
    ELSE
      LET need == Utf8Need(bs[i])
          run == IF need = Undef THEN 0 ELSE Utf8Run(bs, i, need, 1)
          good == need # Undef /\ run = need
      IN  IF ~good /\ ~replace THEN [ok |-> FALSE, text |-> <<>>]
          ELSE
            LET cp == IF good
                      THEN Utf8Acc(bs, i + 1, need, Utf8Lead(bs[i], need))
                      ELSE REPLACEMENT
                rest == Utf8From(bs, i + 1 + run, replace)
            IN  [ok |-> rest.ok, text |-> <<cp>> \o rest.text]

RECURSIVE CharmapFrom(_, _, _)
CharmapFrom(enc, bs, i) ==
    IF i > Len(bs) THEN [ok |-> TRUE, text |-> <<>>]
    ELSE
      LET cp == CharmapCp(enc, bs[i])
      IN  IF cp = Undef THEN [ok |-> FALSE, text |-> <<>>]
          ELSE LET rest == CharmapFrom(enc, bs, i + 1)
               IN  [ok |-> rest.ok, text |-> <<cp>> \o rest.text]

\* html_content.decode(enc): the text, or the exception raised
Decode(enc, bs) ==
    IF enc \notin KnownCodecs
    THEN [ok |-> FALSE, text |-> <<>>, err |-> "LookupError"]
    ELSE LET r == IF enc = "utf-8" THEN Utf8From(bs, 1, FALSE)
                  ELSE CharmapFrom(enc, bs, 1)
         IN  IF r.ok THEN [ok |-> TRUE, text |-> r.text, err |-> None]
             ELSE [ok |-> FALSE, text |-> <<>>, err |-> "UnicodeDecodeError"]

\* html_content.decode('utf-8', errors='replace')
DecodeReplace(bs) == Utf8From(bs, 1, TRUE).text

\* str.encode('utf-8') of one code point
Utf8Bytes(cp) ==
    IF cp < 128 THEN <<cp>>
    ELSE IF cp < 2048 THEN <<192 + (cp \div 64), 128 + (cp % 64)>>
    ELSE <<224 + (cp \div 4096), 128 + ((cp \div 64) % 64), 128 + (cp % 64)>>

RECURSIVE Utf8Encode(_)
Utf8Encode(text) ==
    IF text = <<>> THEN <<>> ELSE Utf8Bytes(Head(text)) \o Utf8Encode(Tail(text))

\* the byte-order mark 'utf-8-sig' writes first
BOM == <<239, 187, 191>>


(***************************************************************************)
(* The two parsers of pandas, reduced to what the converters use of them:  *)
(* a Dataset is the header row of the first sheet or table, one code point *)
(* per cell.  A binary workbook is the signature byte 0xD0 followed by at  *)
(* least one ASCII cell; an HTML table is '<', one or more cells, '>'.     *)
(***************************************************************************)
XLS_MAGIC == 208
LT == 60
GT == 62
COMMA == 44
QUOTE == 34
NEWLINE == 10
CR == 13

\* pd.read_excel(path, sheet_name=0, engine=None, header=0)
ReadExcel(file) ==
    IF ~file.exists THEN [ok |-> FALSE, df |-> <<>>, err |-> "FileNotFoundError"]
    ELSE LET data == file.data
         IN  IF /\ Len(data) >= 2
                /\ data[1] = XLS_MAGIC
                /\ \A i \in 2..Len(data) : data[i] < 128
             THEN [ok |-> TRUE, df |-> SubSeq(data, 2, Len(data)), err |-> None]
             ELSE [ok |-> FALSE, df |-> <<>>, err |-> "ValueError"]

\* the cells of the table opened at position i ('<' at i), or <<>> if the
\* table is not closed before the text ends or another one opens
RECURSIVE TableEnd(_, _)
TableEnd(text, j) ==
    IF j > Len(text) \/ text[j] = LT THEN 0
    ELSE IF text[j] = GT THEN j
    ELSE TableEnd(text, j + 1)

\* pd.read_html(StringIO(html_text)): every table of the text, in document order
RECURSIVE TablesFrom(_, _)
TablesFrom(text, i) ==
    IF i > Len(text) THEN <<>>
    ELSE IF text[i] # LT THEN TablesFrom(text, i + 1)
    ELSE LET e == TableEnd(text, i + 1)
         IN  IF e > i + 1
             THEN <<SubSeq(text, i + 1, e - 1)>> \o TablesFrom(text, e + 1)
             ELSE TablesFrom(text, i + 1)

ReadHtml(text) == TablesFrom(text, 1)

\* one field of the csv writer: quoted when it holds a delimiter, a quote
\* or a line break
CsvField(cell) ==
    IF cell = QUOTE THEN <<QUOTE, QUOTE, QUOTE, QUOTE>>
    ELSE IF cell \in {COMMA, NEWLINE, CR} THEN <<QUOTE, cell, QUOTE>>
    ELSE <<cell>>

RECURSIVE CsvJoin(_)
CsvJoin(cells) ==
    IF Len(cells) = 0 THEN <<>>
    ELSE IF Len(cells) = 1 THEN CsvField(cells[1])
    ELSE CsvField(cells[1]) \o <<COMMA>> \o CsvJoin(Tail(cells))

\* df.to_csv(index=False, header=True, sep=',') as text: the header row
CsvText(df) == CsvJoin(df) \o <<NEWLINE>>

\* df.to_csv(output_file, ..., encoding='utf-8-sig'): the bytes of the file
CliCsvBytes(df) == BOM \o Utf8Encode(CsvText(df))

\* faulty variant: the text encoded as plain utf-8
WebCsvBytes_NoMark(df) == Utf8Encode(CsvText(df))

\* df.to_csv(..., encoding='utf-8-sig') with no path returns the text, which
\* carries no mark; .encode('utf-8-sig') then puts the mark in front
WebCsvBytes(df) == BOM \o Utf8Encode(CsvText(df))

\* faulty variant: the list with TIS-620 put before the code page
encodings_TisFirst == <<"tis-620", "cp874", "iso-8859-11", "windows-874">>

\* the legacy encodings tried after UTF-8, in the order of the list
encodings == <<"cp874", "tis-620", "iso-8859-11", "windows-874">>

(***************************************************************************)
(* File names.                                                             *)
(***************************************************************************)
\* index of the last "." of a name, 0 if there is none
RECURSIVE LastDot(_, _)
LastDot(name, i) ==
    IF i = 0 THEN 0 ELSE IF name[i] = "." THEN i ELSE LastDot(name, i - 1)

CSV_SUFFIX == <<".", "c", "s", "v">>

\* Path(name).with_suffix('.csv').name
WithSuffixCsv(name) ==
    LET i == LastDot(name, Len(name))
    IN  IF i > 1 /\ i < Len(name) THEN SubSeq(name, 1, i - 1) \o CSV_SUFFIX
        ELSE name \o CSV_SUFFIX


(***************************************************************************)
(* State.                                                                  *)
(***************************************************************************)
VARIABLES
    \* one activation of xls_to_csv_utf8 (either file's)
    variant,        \* "cli": convert_xls_to_csv.py, "web": app.py
    pc,             \* the statement the activation is at
    input_file,     \* its path argument
    output_file,    \* cli: the output path ([given |-> FALSE]: None)
    html_content,   \* the bytes read for the HTML fallback
    html_text,      \* [set |-> FALSE] is Python's None
    enc_i,          \* position of the for loop in encodings
    df,             \* the Dataset
    exc,            \* the exception in flight
    ret,            \* the value returned
    steps,          \* history: the parsing steps run, with their outcome
    \* the command line's world
    disk,           \* name -> file
    stdout,         \* success lines printed
    stderr,         \* error lines printed
    written,        \* history: outputs written by to_csv
    \* batch_convert
    bpc,            \* the statement batch_convert is at
    indir_exists,   \* whether the input directory exists
    xls_files,      \* the list the glob returned
    bi,             \* position of the for loop in xls_files
    visited,        \* history: the paths handed to xls_to_csv_utf8
    \* the upload service
    fs,             \* UPLOAD_FOLDER: name -> file
    rq              \* request -> the locals of its convert_file activation

convVars == <<variant, pc, input_file, output_file, html_content, html_text,
              enc_i, df, exc, ret, steps>>
cliVars == <<disk, stdout, stderr, written>>
batchVars == <<bpc, indir_exists, xls_files, bi, visited>>
webVars == <<fs, rq>>
envVars == <<batchVars, webVars>>
vars == <<convVars, cliVars, batchVars, webVars>>

NoExc == [type |-> None, msg |-> None, cause |-> None]
Unset == [set |-> FALSE, text |-> <<>>]
Text(t) == [set |-> TRUE, text |-> t]
NoPath == [given |-> FALSE, name |-> <<>>]
Path(n) == [given |-> TRUE, name |-> n]
NoReturn == [kind |-> "pending", val |-> <<>>]

IN_XLS == <<"i", "n", ".", "x", "l", "s">>
\* the entries the batch input directory may hold
A_XLS == <<"a", ".", "x", "l", "s">>
B_XLS == <<"b", ".", "x", "l", "s">>
C_XLS == <<"c", ".", "x", "l", "s">>
N_TXT == <<"n", ".", "t", "x", "t">>
DirNames == {A_XLS, B_XLS, C_XLS, N_TXT}
DiskNames == {IN_XLS, WithSuffixCsv(IN_XLS)} \cup DirNames
                 \cup {WithSuffixCsv(n) : n \in DirNames}

\* the upload service not running
NoUploads == <<>>
NoRequests == <<>>

Step(op, ok) == [op |-> op, ok |-> ok]

\* the local state of an activation that has not run yet
ConvEntry(v, path, out) ==
    /\ variant' = v
    /\ pc' = IF v = "cli" THEN "start" ELSE "excel"
    /\ input_file' = path
    /\ output_file' = out
    /\ html_content' = <<>>
    /\ html_text' = Unset
    /\ enc_i' = 0
    /\ df' = <<>>
    /\ exc' = NoExc
    /\ ret' = NoReturn
    /\ steps' = <<>>

(***************************************************************************)
(* xls_to_csv_utf8, statement by statement.                                *)
(***************************************************************************)
\* cli: the existence check and the default output path
ConvStart ==
    /\ pc = "start"
    /\ IF ~disk[input_file].exists
       THEN /\ exc' = [type |-> "FileNotFoundError", msg |-> "not_found", cause |-> None]
            /\ pc' = "except"
            /\ UNCHANGED output_file
       ELSE /\ output_file' = IF output_file.given THEN output_file
                              ELSE Path(WithSuffixCsv(input_file))
            /\ pc' = "excel"
            /\ UNCHANGED exc
    /\ UNCHANGED <<variant, input_file, html_content, html_text, enc_i, df, ret, steps>>
    /\ UNCHANGED cliVars
    /\ UNCHANGED envVars

\* faulty variant: the fallback entered whatever the binary parse gave
ExcelStep_AlwaysFallback(file) ==
    LET r == ReadExcel(file)
    IN  [df |-> r.df, pc |-> "open", ok |-> r.ok]

\* step 1: the binary spreadsheet parse; any exception leads to the fallback
ExcelStep(file) ==
    LET r == ReadExcel(file)
    IN  [df |-> r.df, pc |-> IF r.ok THEN "emit" ELSE "open", ok |-> r.ok]

ConvReadExcel ==
    /\ pc = "excel"
    /\ LET r == ExcelStep(disk[input_file])
       IN  /\ df' = r.df
           /\ pc' = r.pc
           /\ steps' = Append(steps, Step("read_excel", r.ok))
    /\ UNCHANGED <<variant, input_file, output_file, html_content, html_text, enc_i, exc, ret>>
    /\ UNCHANGED cliVars
    /\ UNCHANGED envVars

\* step 2: open(path, 'rb').read()
ConvOpen ==
    /\ pc = "open"
    /\ LET f == disk[input_file]
       IN  IF f.exists
           THEN /\ html_content' = f.data
                /\ pc' = "utf8"
                /\ UNCHANGED exc
           ELSE /\ exc' = [type |-> "FileNotFoundError", msg |-> "not_found", cause |-> None]
                /\ pc' = "wrap"
                /\ UNCHANGED html_content
    /\ steps' = Append(steps, Step("open", disk[input_file].exists))
    /\ UNCHANGED <<variant, input_file, output_file, html_text, enc_i, df, ret>>
    /\ UNCHANGED cliVars
    /\ UNCHANGED envVars

\* 2a: html_content.decode('utf-8'); on UnicodeDecodeError the loop is set up
ConvDecodeUtf8 ==
    /\ pc = "utf8"
    /\ LET d == Decode("utf-8", html_content)
       IN  /\ IF d.ok
              THEN html_text' = Text(d.text) /\ pc' = "html" /\ UNCHANGED enc_i
              ELSE html_text' = Unset /\ enc_i' = 1 /\ pc' = "enc"
           /\ steps' = Append(steps, Step("utf-8", d.ok))
    /\ UNCHANGED <<variant, input_file, output_file, html_content, df, exc, ret>>
    /\ UNCHANGED cliVars
    /\ UNCHANGED envVars

\* one turn of "for enc in encodings": break on success, continue on
\* UnicodeDecodeError; any other exception leaves the loop and the try
LoopTurn(enc, bs, i) ==
    LET d == Decode(enc, bs)
    IN  IF d.ok THEN [pc |-> "none", text |-> Text(d.text), i |-> i, err |-> None]
        ELSE IF d.err = "UnicodeDecodeError"
        THEN [pc |-> IF i + 1 > Len(encodings) THEN "none" ELSE "enc",
              text |-> Unset, i |-> i + 1, err |-> None]
        ELSE [pc |-> "wrap", text |-> Unset, i |-> i, err |-> d.err]

ConvTryEncoding ==
    /\ pc = "enc"
    /\ enc_i <= Len(encodings)
    /\ LET t == LoopTurn(encodings[enc_i], html_content, enc_i)
       IN  /\ pc' = t.pc
           /\ html_text' = t.text
           /\ enc_i' = t.i
           /\ exc' = IF t.err = None THEN exc
                     ELSE [type |-> t.err, msg |-> "unknown_encoding", cause |-> None]
           /\ steps' = Append(steps, Step(encodings[enc_i], t.text.set))
    /\ UNCHANGED <<variant, input_file, output_file, html_content, df, ret>>
    /\ UNCHANGED cliVars
    /\ UNCHANGED envVars

\* "if html_text is None": decode with errors='replace'
ConvCheckNone ==
    /\ pc = "none"
    /\ IF ~html_text.set
       THEN /\ html_text' = Text(DecodeReplace(html_content))
            /\ steps' = Append(steps, Step("replace", TRUE))
       ELSE UNCHANGED <<html_text, steps>>
    /\ pc' = "html"
    /\ UNCHANGED <<variant, input_file, output_file, html_content, enc_i, df, exc, ret>>
    /\ UNCHANGED cliVars
    /\ UNCHANGED envVars

\* 2b: pd.read_html and the choice of the first table
HtmlStep(text) ==
    LET dfs == ReadHtml(text)
    IN  IF Len(dfs) > 0 THEN [ok |-> TRUE, df |-> dfs[1]]
        ELSE [ok |-> FALSE, df |-> <<>>]

ConvReadHtml ==
    /\ pc = "html"
    /\ LET h == HtmlStep(html_text.text)
       IN  /\ df' = h.df
           /\ IF h.ok
              THEN pc' = "emit" /\ UNCHANGED exc
              ELSE /\ pc' = "wrap"
                   /\ exc' = [type |-> "ValueError", msg |-> "no_table", cause |-> None]
           /\ steps' = Append(steps, Step("read_html", h.ok))
    /\ UNCHANGED <<variant, input_file, output_file, html_content, html_text, enc_i, ret>>
    /\ UNCHANGED cliVars
    /\ UNCHANGED envVars

\* faulty variant: the inner handler lets the exception through as it is
ConvWrap_Unwrapped ==
    /\ pc = "wrap"
    /\ pc' = "except"
    /\ UNCHANGED <<variant, input_file, output_file, html_content, html_text, enc_i, df, exc, ret, steps>>
    /\ UNCHANGED cliVars
    /\ UNCHANGED envVars

\* "except Exception as e: raise ValueError(cannot read: e)"
ConvWrap ==
    /\ pc = "wrap"
    /\ exc' = [type |-> "ValueError", msg |-> "cannot_read", cause |-> exc.msg]
    /\ pc' = "except"
    /\ UNCHANGED <<variant, input_file, output_file, html_content, html_text, enc_i, df, ret, steps>>
    /\ UNCHANGED cliVars
    /\ UNCHANGED envVars

\* cli: write the CSV file, print the success line, return the path
CliToCsv ==
    /\ pc = "emit"
    /\ variant = "cli"
    /\ disk' = [disk EXCEPT ![output_file.name] = File(CliCsvBytes(df), "cli")]
    /\ written' = written \cup {output_file.name}
    /\ stdout' = Append(stdout, "converted")
    /\ ret' = [kind |-> "path", val |-> output_file.name]
    /\ pc' = "returned"
    /\ steps' = Append(steps, Step("to_csv", TRUE))
    /\ UNCHANGED <<variant, input_file, output_file, html_content, html_text, enc_i, df, exc, stderr>>
    /\ UNCHANGED envVars

\* web: return the CSV bytes in a buffer
WebToCsv ==
    /\ pc = "emit"
    /\ variant = "web"
    /\ ret' = [kind |-> "buffer", val |-> WebCsvBytes(df)]
    /\ pc' = "returned"
    /\ steps' = Append(steps, Step("to_csv", TRUE))
    /\ UNCHANGED <<variant, input_file, output_file, html_content, html_text, enc_i, df, exc>>
    /\ UNCHANGED cliVars
    /\ UNCHANGED envVars

\* faulty variant: the handler reports and raises again, as the web converter's does
CliOutcome_Reraise(e) == [pc |-> "raised", lines |-> <<e.msg>>]

\* cli: "except Exception as e": one error line, return None
CliOutcome(e) == [pc |-> "returned", lines |-> <<e.msg>>]

CliExcept ==
    /\ pc = "except"
    /\ variant = "cli"
    /\ LET o == CliOutcome(exc)
       IN  /\ stderr' = stderr \o o.lines
           /\ pc' = o.pc
    /\ ret' = [kind |-> "none", val |-> <<>>]
    /\ UNCHANGED <<variant, input_file, output_file, html_content, html_text, enc_i, df, exc, steps>>
    /\ UNCHANGED <<disk, stdout, written>>
    /\ UNCHANGED envVars

\* web: "except Exception as e: raise Exception(conversion error: e)"
WebExcept ==
    /\ pc = "except"
    /\ variant = "web"
    /\ exc' = [type |-> "Exception", msg |-> "convert_error", cause |-> exc.msg]
    /\ pc' = "raised"
    /\ UNCHANGED <<variant, input_file, output_file, html_content, html_text, enc_i, df, ret, steps>>
    /\ UNCHANGED cliVars
    /\ UNCHANGED envVars

\* the statements the two files share
ParseNext ==
    \/ ConvReadExcel
    \/ ConvOpen
    \/ ConvDecodeUtf8
    \/ ConvTryEncoding
    \/ ConvCheckNone
    \/ ConvReadHtml
    \/ ConvWrap

CliNext == ConvStart \/ ParseNext \/ CliToCsv \/ CliExcept

ConvNext == CliNext \/ WebToCsv \/ WebExcept

(***************************************************************************)
(* Spec: one conversion of one file, by either converter.                  *)
(***************************************************************************)
\* bytes that tell the parsers and the codecs apart: '<' '>' 'A', 0x80 (the
\* euro sign of cp874, a control character of tis-620 and iso-8859-11), 0x81
\* (not cp874), 0xA1 (Thai, and a UTF-8 continuation), 0xD0 (Thai, a UTF-8
\* lead and the workbook signature), 0xDB (in no Thai codec)
ByteAlphabet == {60, 62, 65, 128, 129, 161, 208, 219}

RECURSIVE SeqsUpTo(_, _)
SeqsUpTo(S, n) ==
    IF n = 0 THEN {<<>>}
    ELSE LET shorter == SeqsUpTo(S, n - 1)
         IN  shorter \cup {Append(q, e) : q \in {r \in shorter : Len(r) = n - 1}, e \in S}

Inputs == SeqsUpTo(ByteAlphabet, MaxLen)

Init ==
    /\ \E v \in {"cli", "web"} :
         /\ variant = v
         /\ pc = IF v = "cli" THEN "start" ELSE "excel"
    /\ input_file = IN_XLS
    /\ output_file = NoPath
    /\ html_content = <<>>
    /\ html_text = Unset
    /\ enc_i = 0
    /\ df = <<>>
    /\ exc = NoExc
    /\ ret = NoReturn
    /\ steps = <<>>
    /\ \E f \in {File(b, "user") : b \in Inputs} \cup {Absent} :
         disk = [n \in DiskNames |-> IF n = IN_XLS THEN f ELSE Absent]
    /\ stdout = <<>>
    /\ stderr = <<>>
    /\ written = {}
    /\ bpc = "single"
    /\ indir_exists = TRUE
    /\ xls_files = <<>>
    /\ bi = 0
    /\ visited = <<>>
    /\ fs = NoUploads
    /\ rq = NoRequests

Next == ConvNext

Spec == Init /\ [][Next]_vars

(***************************************************************************)
(* The conversion as a whole: the statements above, composed.              *)
(***************************************************************************)
\* the for loop over encodings from position i on
RECURSIVE DecodeLoop(_, _)
DecodeLoop(bs, i) ==
    LET t == LoopTurn(encodings[i], bs, i)
    IN  IF t.pc = "enc" THEN DecodeLoop(bs, t.i) ELSE t

\* the text decoding sub-chain: the text, or the exception that left it
DecodeChain(bs) ==
    LET d == Decode("utf-8", bs)
    IN  IF d.ok THEN [ok |-> TRUE, text |-> d.text]
        ELSE LET t == DecodeLoop(bs, 1)
             IN  IF t.pc = "wrap" THEN [ok |-> FALSE, text |-> <<>>]
                 ELSE IF t.text.set THEN [ok |-> TRUE, text |-> t.text.text]
                 ELSE [ok |-> TRUE, text |-> DecodeReplace(bs)]

\* the HTML fallback on the file found at the path
HtmlFallback(file) ==
    IF ~file.exists THEN [ok |-> FALSE, df |-> <<>>]
    ELSE LET t == DecodeChain(file.data)
         IN  IF t.ok THEN HtmlStep(t.text) ELSE [ok |-> FALSE, df |-> <<>>]

\* the Dataset of a file that does not change while it is converted
Convert(file) ==
    IF ExcelStep(file).ok THEN [ok |-> TRUE, df |-> ExcelStep(file).df]
    ELSE HtmlFallback(file)

(***************************************************************************)
(* batch_convert.                                                          *)
(***************************************************************************)
XLS_SUFFIX == <<".", "x", "l", "s">>

\* input_path.glob('*.xls'): the entries of the directory the pattern matches
Glob(d) ==
    {n \in DirNames :
        /\ d[n].exists
        /\ Len(n) >= Len(XLS_SUFFIX)
        /\ SubSeq(n, Len(n) - Len(XLS_SUFFIX) + 1, Len(n)) = XLS_SUFFIX}

\* the orders in which a directory listing may come
RECURSIVE Orders(_)
Orders(S) ==
    IF S = {} THEN {<<>>}
    ELSE UNION {{<<e>> \o q : q \in Orders(S \ {e})} : e \in S}

BatchStart ==
    /\ bpc = "start"
    /\ IF ~indir_exists
       THEN /\ stderr' = Append(stderr, "no_directory")
            /\ bpc' = "done"
       ELSE /\ bpc' = "glob"
            /\ UNCHANGED stderr
    /\ UNCHANGED <<indir_exists, xls_files, bi, visited>>
    /\ UNCHANGED <<disk, stdout, written>>
    /\ UNCHANGED webVars
    /\ UNCHANGED convVars

BatchGlob ==
    /\ bpc = "glob"
    /\ \E order \in Orders(Glob(disk)) :
         /\ xls_files' = order
         /\ IF order = <<>>
            THEN /\ stdout' = Append(stdout, "no_xls_found")
                 /\ bpc' = "done"
                 /\ UNCHANGED bi
            ELSE /\ stdout' = Append(stdout, "found")
                 /\ bpc' = "loop"
                 /\ bi' = 1
    /\ UNCHANGED <<indir_exists, visited>>
    /\ UNCHANGED <<disk, stderr, written>>
    /\ UNCHANGED webVars
    /\ UNCHANGED convVars

\* the body of the for loop: the call of xls_to_csv_utf8
BatchCall ==
    /\ bpc = "loop"
    /\ bi <= Len(xls_files)
    /\ ConvEntry("cli", xls_files[bi], Path(WithSuffixCsv(xls_files[bi])))
    /\ visited' = Append(visited, xls_files[bi])
    /\ bpc' = "call"
    /\ UNCHANGED <<indir_exists, xls_files, bi>>
    /\ UNCHANGED webVars
    /\ UNCHANGED cliVars

\* the call is over: its value is dropped; an exception would leave the loop
BatchReturn ==
    /\ bpc = "call"
    /\ pc \in {"returned", "raised"}
    /\ IF pc = "returned"
       THEN bi' = bi + 1 /\ bpc' = "loop"
       ELSE UNCHANGED bi /\ bpc' = "crashed"
    /\ UNCHANGED <<indir_exists, xls_files, visited>>
    /\ UNCHANGED cliVars
    /\ UNCHANGED webVars
    /\ UNCHANGED convVars

BatchEnd ==
    /\ bpc = "loop"
    /\ bi > Len(xls_files)
    /\ bpc' = "done"
    /\ UNCHANGED <<indir_exists, xls_files, bi, visited>>
    /\ UNCHANGED cliVars
    /\ UNCHANGED webVars
    /\ UNCHANGED convVars

\* file contents of the batch: a workbook, a Thai page with a table that
\* cp874 reads, one that only iso-8859-11 reads (0x81 and 0xA0), a text
\* without a table, a page no candidate decodes
XL_BOOK == <<208, 65>>
TIS_PAGE == <<60, 161, 62>>
ISO_PAGE == <<60, 129, 160, 62>>
NO_TABLE == <<65>>
UNDECODABLE == <<60, 219, 62>>
Contents == {XL_BOOK, TIS_PAGE, ISO_PAGE, NO_TABLE, UNDECODABLE}
STALE == <<83>>

Directories ==
    {d \in [DirNames -> {File(b, "user") : b \in Contents} \cup {Absent}] :
        Cardinality({n \in DirNames : d[n].exists}) <= MaxDir}

InitBatch ==
    /\ variant = "cli"
    /\ pc = "idle"
    /\ input_file = <<>>
    /\ output_file = NoPath
    /\ html_content = <<>>
    /\ html_text = Unset
    /\ enc_i = 0
    /\ df = <<>>
    /\ exc = NoExc
    /\ ret = NoReturn
    /\ steps = <<>>
    /\ \E e \in BOOLEAN, d \in Directories,
          old \in {Absent, File(STALE, "old")} :
         /\ indir_exists = e
         /\ ~e => (\A n \in DirNames : ~d[n].exists) /\ ~old.exists
         /\ disk = [n \in DiskNames |->
                      IF n \in DirNames THEN d[n]
                      ELSE IF n = WithSuffixCsv(A_XLS) THEN old
                      ELSE Absent]
    /\ stdout = <<>>
    /\ stderr = <<>>
    /\ written = {}
    /\ bpc = "start"
    /\ xls_files = <<>>
    /\ bi = 0
    /\ visited = <<>>
    /\ fs = NoUploads
    /\ rq = NoRequests

BatchNext ==
    \/ BatchStart
    \/ BatchGlob
    \/ BatchCall
    \/ BatchReturn
    \/ BatchEnd

NextBatch == BatchNext \/ CliNext

SpecBatch == InitBatch /\ [][NextBatch]_vars

(***************************************************************************)
(* The upload service: allowed_file, secure_filename and convert_file.     *)
(* Characters are one-character strings; "U+0E01" stands for the one Thai  *)
(* letter KO KAI.                                                          *)
(***************************************************************************)
ALLOWED_EXTENSIONS == {<<"x", "l", "s">>, <<"x", "l", "s", "x">>}

Lower(c) ==
    CASE c = "X" -> "x"
      [] c = "L" -> "l"
      [] c = "S" -> "s"
      [] OTHER -> c

LowerAll(q) == [k \in DOMAIN q |-> Lower(q[k])]

\* '.' in filename and filename.rsplit('.', 1)[1].lower() in ALLOWED_EXTENSIONS
allowed_file(filename) ==
    LET d == LastDot(filename, Len(filename))
    IN  /\ d > 0
        /\ LowerAll(SubSeq(filename, d + 1, Len(filename))) \in ALLOWED_EXTENSIONS

IsAscii(c) == c # "U+0E01"
IsSpace(c) == c = " "
\* the characters secure_filename keeps: [A-Za-z0-9_.-]
IsSafe(c) == IsAscii(c) /\ ~IsSpace(c) /\ c # "/"

RECURSIVE Keep(_, _)
\* the characters of q for which the test holds, in order
Keep(q, ascii_only) ==
    IF q = <<>> THEN <<>>
    ELSE LET c == Head(q)
             rest == Keep(Tail(q), ascii_only)
         IN  IF ascii_only
             THEN (IF IsAscii(c) THEN <<IF c = "/" THEN " " ELSE c>> ELSE <<>>) \o rest
             ELSE (IF IsSafe(c) \/ c = "_" THEN <<c>> ELSE <<>>) \o rest

\* "_".join(q.split()): the words of q, joined by one underscore
RECURSIVE JoinWords(_, _, _)
JoinWords(q, started, gap) ==
    IF q = <<>> THEN <<>>
    ELSE IF IsSpace(Head(q)) THEN JoinWords(Tail(q), started, started)
    ELSE (IF gap THEN <<"_">> ELSE <<>>) \o <<Head(q)>> \o JoinWords(Tail(q), TRUE, FALSE)

RECURSIVE StripLeft(_)
StripLeft(q) ==
    IF q # <<>> /\ Head(q) \in {".", "_"} THEN StripLeft(Tail(q)) ELSE q

RECURSIVE StripRight(_)
StripRight(q) ==
    IF q # <<>> /\ q[Len(q)] \in {".", "_"} THEN StripRight(SubSeq(q, 1, Len(q) - 1)) ELSE q

\* werkzeug.utils.secure_filename
secure_filename(filename) ==
    StripRight(StripLeft(Keep(JoinWords(Keep(filename, TRUE), FALSE, FALSE), FALSE)))

Requests == {"r1", "r2"}

NoResp == [kind |-> "pending", name |-> <<>>, body |-> <<>>, entries |-> <<>>]
Json(status) == [kind |-> status, name |-> <<>>, body |-> <<>>, entries |-> <<>>]
NoConv == [ok |-> FALSE, df |-> <<>>]

\* the locals of an activation of convert_file for the uploaded files
Activation(files) ==
    [files |-> files, pc |-> "start", valid |-> <<>>, i |-> 0, filename |-> <<>>,
     temps |-> <<>>, conv |-> NoConv, zip |-> <<>>, outcomes |-> <<>>, ci |-> 0,
     resp |-> NoResp, fault |-> FALSE]

RECURSIVE ValidFiles(_)
\* [f for f in files if allowed_file(f.filename)]
ValidFiles(files) ==
    IF files = <<>> THEN <<>>
    ELSE (IF allowed_file(Head(files).filename) THEN <<Head(files)>> ELSE <<>>)
            \o ValidFiles(Tail(files))

\* the checks before any file is touched
WebValidate(r) ==
    /\ rq[r].pc = "start"
    /\ LET files == rq[r].files
           valid == ValidFiles(files)
       IN  IF files = <<>> \/ files[1].filename = <<>> \/ valid = <<>>
           THEN rq' = [rq EXCEPT ![r] = [@ EXCEPT !.pc = "done", !.resp = Json("json400")]]
           ELSE rq' = [rq EXCEPT ![r] = [@ EXCEPT !.pc = "save", !.valid = valid, !.i = 1]]
    /\ UNCHANGED fs
    /\ UNCHANGED <<convVars, cliVars, batchVars>>

\* file.save(temp_path), the path being the secured name in the shared folder
WebSave(r) ==
    /\ rq[r].pc = "save"
    /\ LET f == rq[r].valid[rq[r].i]
           name == secure_filename(f.filename)
       IN  /\ fs' = [fs EXCEPT ![name] = File(f.data, r)]
           /\ rq' = [rq EXCEPT ![r] = [@ EXCEPT !.pc = "excel", !.filename = name,
                        !.temps = IF Len(rq[r].valid) = 1 THEN @ ELSE Append(@, name)]]
    /\ UNCHANGED <<convVars, cliVars, batchVars>>

\* file.save raising (no space, no permission): nothing catches it, Flask
\* answers 500; the file may have been created, empty, before the fault
WebSaveFault(r) ==
    /\ rq[r].pc = "save"
    /\ LET f == rq[r].valid[rq[r].i]
           name == secure_filename(f.filename)
       IN  /\ \/ UNCHANGED fs
              \/ fs' = [fs EXCEPT ![name] = File(<<>>, r)]
           /\ rq' = [rq EXCEPT ![r] = [@ EXCEPT !.pc = "done", !.fault = TRUE,
                        !.resp = Json("crash500")]]
    /\ UNCHANGED <<convVars, cliVars, batchVars>>

\* xls_to_csv_utf8(temp_path): the binary parse of the file now at the path
WebExcel(r) ==
    /\ rq[r].pc = "excel"
    /\ LET e == ExcelStep(fs[rq[r].filename])
       IN  rq' = [rq EXCEPT ![r] = [@ EXCEPT
                    !.pc = IF e.ok THEN "converted" ELSE "html",
                    !.conv = [ok |-> e.ok, df |-> e.df]]]
    /\ UNCHANGED fs
    /\ UNCHANGED <<convVars, cliVars, batchVars>>

\* xls_to_csv_utf8(temp_path): the HTML fallback on the file now at the path
WebHtml(r) ==
    /\ rq[r].pc = "html"
    /\ rq' = [rq EXCEPT ![r] = [@ EXCEPT !.pc = "converted",
                                         !.conv = HtmlFallback(fs[rq[r].filename])]]
    /\ UNCHANGED fs
    /\ UNCHANGED <<convVars, cliVars, batchVars>>

\* one valid file, converted: send the CSV; remove_file runs after the request
WebSendCsv(r) ==
    /\ rq[r].pc = "converted"
    /\ Len(rq[r].valid) = 1
    /\ rq[r].conv.ok
    /\ fs' = [fs EXCEPT ![rq[r].filename] = Absent]
    /\ rq' = [rq EXCEPT ![r] = [@ EXCEPT !.pc = "done",
                 !.resp = [kind |-> "csv", name |-> WithSuffixCsv(rq[r].filename),
                           body |-> WebCsvBytes(rq[r].conv.df), entries |-> <<>>]]]
    /\ UNCHANGED <<convVars, cliVars, batchVars>>

\* one valid file, not converted: "if os.path.exists(temp_path)"
WebFailExists(r) ==
    /\ rq[r].pc = "converted"
    /\ Len(rq[r].valid) = 1
    /\ ~rq[r].conv.ok
    /\ IF fs[rq[r].filename].exists
       THEN rq' = [rq EXCEPT ![r] = [@ EXCEPT !.pc = "remove"]]
       ELSE rq' = [rq EXCEPT ![r] = [@ EXCEPT !.pc = "done", !.resp = Json("json500")]]
    /\ UNCHANGED fs
    /\ UNCHANGED <<convVars, cliVars, batchVars>>

\* "os.remove(temp_path)" in the handler, then the JSON error; a path that
\* is gone by now raises out of the handler
WebFailRemove(r) ==
    /\ rq[r].pc = "remove"
    /\ IF fs[rq[r].filename].exists
       THEN /\ fs' = [fs EXCEPT ![rq[r].filename] = Absent]
            /\ rq' = [rq EXCEPT ![r] = [@ EXCEPT !.pc = "done", !.resp = Json("json500")]]
       ELSE /\ UNCHANGED fs
            /\ rq' = [rq EXCEPT ![r] = [@ EXCEPT !.pc = "done", !.resp = Json("crash500")]]
    /\ UNCHANGED <<convVars, cliVars, batchVars>>

\* faulty variant: a file that fails to convert ends the loop ("break")
ZipStep_Break(cur, name) ==
    LET added == IF cur.conv.ok
                 THEN Append(cur.zip, [name |-> WithSuffixCsv(name),
                                       data |-> WebCsvBytes(cur.conv.df), of |-> cur.i])
                 ELSE cur.zip
        last == cur.i + 1 > Len(cur.valid) \/ ~cur.conv.ok
    IN  [cur EXCEPT !.zip = added,
                    !.outcomes = Append(@, cur.conv.ok),
                    !.i = cur.i + 1,
                    !.pc = IF last THEN "cleanup" ELSE "save",
                    !.ci = IF last THEN 1 ELSE @]

\* several valid files: writestr of the CSV, or "continue" past the failure
ZipStep(cur, name) ==
    LET added == IF cur.conv.ok
                 THEN Append(cur.zip, [name |-> WithSuffixCsv(name),
                                       data |-> WebCsvBytes(cur.conv.df), of |-> cur.i])
                 ELSE cur.zip
        last == cur.i + 1 > Len(cur.valid)
    IN  [cur EXCEPT !.zip = added,
                    !.outcomes = Append(@, cur.conv.ok),
                    !.i = cur.i + 1,
                    !.pc = IF last THEN "cleanup" ELSE "save",
                    !.ci = IF last THEN 1 ELSE @]

WebZipAdd(r) ==
    /\ rq[r].pc = "converted"
    /\ Len(rq[r].valid) > 1
    /\ rq' = [rq EXCEPT ![r] = ZipStep(rq[r], rq[r].filename)]
    /\ UNCHANGED fs
    /\ UNCHANGED <<convVars, cliVars, batchVars>>

\* "for temp_path in temp_files: os.remove(temp_path)", errors passed over
WebCleanup(r) ==
    /\ rq[r].pc = "cleanup"
    /\ rq[r].ci <= Len(rq[r].temps)
    /\ fs' = [fs EXCEPT ![rq[r].temps[rq[r].ci]] = Absent]
    /\ rq' = [rq EXCEPT ![r] = [@ EXCEPT !.ci = @ + 1]]
    /\ UNCHANGED <<convVars, cliVars, batchVars>>

ZIP_NAME == <<"converted_files.zip">>

WebSendZip(r) ==
    /\ rq[r].pc = "cleanup"
    /\ rq[r].ci > Len(rq[r].temps)
    /\ rq' = [rq EXCEPT ![r] = [@ EXCEPT !.pc = "done",
                 !.resp = [kind |-> "zip", name |-> ZIP_NAME, body |-> <<>>,
                           entries |-> rq[r].zip]]]
    /\ UNCHANGED fs
    /\ UNCHANGED <<convVars, cliVars, batchVars>>

\* the uploads a request may carry: (file name, content)
Upload(name, data) == [filename |-> name, data |-> data]
\* a Thai name of two words with an upper-case extension
THAI_XLS == <<"U+0E01", " ", "U+0E01", ".", "X", "L", "S">>
Uploads ==
    {Upload(A_XLS, XL_BOOK), Upload(A_XLS, NO_TABLE), Upload(THAI_XLS, TIS_PAGE),
     Upload(N_TXT, XL_BOOK), Upload(<<>>, <<>>)}
\* what the request running beside it uploads: nothing, or one file of the
\* same name and other bytes
OtherUploads == {Upload(A_XLS, TIS_PAGE)}
OtherShapes == {<<>>} \cup {<<u>> : u \in OtherUploads}

TempNames == {secure_filename(u.filename) : u \in Uploads \cup OtherUploads}

InitWeb ==
    /\ variant = "web"
    /\ pc = "idle"
    /\ input_file = <<>>
    /\ output_file = NoPath
    /\ html_content = <<>>
    /\ html_text = Unset
    /\ enc_i = 0
    /\ df = <<>>
    /\ exc = NoExc
    /\ ret = NoReturn
    /\ steps = <<>>
    /\ disk = [n \in DiskNames |-> Absent]
    /\ stdout = <<>>
    /\ stderr = <<>>
    /\ written = {}
    /\ bpc = "none"
    /\ indir_exists = FALSE
    /\ xls_files = <<>>
    /\ bi = 0
    /\ visited = <<>>
    /\ fs = [n \in TempNames |-> Absent]
    /\ \E f1 \in SeqsUpTo(Uploads, MaxFiles), f2 \in OtherShapes :
         rq = [r \in Requests |-> Activation(IF r = "r1" THEN f1 ELSE f2)]

NextWeb ==
    \E r \in Requests :
        \/ WebValidate(r)
        \/ WebSave(r)
        \/ WebSaveFault(r)
        \/ WebExcel(r)
        \/ WebHtml(r)
        \/ WebSendCsv(r)
        \/ WebFailExists(r)
        \/ WebFailRemove(r)
        \/ WebZipAdd(r)
        \/ WebCleanup(r)
        \/ WebSendZip(r)

SpecWeb == InitWeb /\ [][NextWeb]_vars

(***************************************************************************)
(* Properties of one conversion (checked under Spec).                      *)
(***************************************************************************)
\* the five encodings the specification names; Windows-874 is the code page
\* of CP874 under its other name
Supported == {"utf-8", "cp874", "tis-620", "iso-8859-11", "windows-874"}
RefDecode(e, bs) == Decode(IF e = "windows-874" THEN "cp874" ELSE e, bs)
Rank(e) ==
    CASE e = "utf-8" -> 1
      [] e \in {"cp874", "windows-874"} -> 2
      [] e = "tis-620" -> 3
      [] e = "iso-8859-11" -> 4

Terminal == pc \in {"returned", "raised"}
InputBytes == disk[input_file].data

\* the input is an HTML-table document written in encoding e, and no workbook
HtmlInput(e) ==
    /\ disk[input_file].exists
    /\ ~ReadExcel(disk[input_file]).ok
    /\ RefDecode(e, InputBytes).ok
    /\ Len(ReadHtml(RefDecode(e, InputBytes).text)) > 0

\* the decoding sub-chain has raised out of the fallback
DecodeRaised == exc.msg = "unknown_encoding" \/ exc.cause = "unknown_encoding"

\* C1 as stated: whichever of the five encodings an HTML-table input was
\* written in, the fallback decodes it without raising and the text it
\* extracts the table from is the text that was encoded.
C1_AnyEncodingRoundTrip ==
    \A e \in Supported :
        HtmlInput(e) =>
            /\ ~DecodeRaised
            /\ html_text.set => html_text.text = RefDecode(e, InputBytes).text

\* C1 (amended): the same, for the inputs that no candidate tried earlier
\* (UTF-8, then CP874, TIS-620, ISO-8859-11) also accepts with another text.
C1_FirstAcceptingRoundTrip ==
    \A e \in Supported :
        ( /\ HtmlInput(e)
          /\ \A f \in Supported :
                (Rank(f) < Rank(e) /\ RefDecode(f, InputBytes).ok)
                    => RefDecode(f, InputBytes).text = RefDecode(e, InputBytes).text )
        =>  /\ ~DecodeRaised
            /\ html_text.set => html_text.text = RefDecode(e, InputBytes).text

\* a TIS-620 document with a Thai cell, not valid UTF-8, has been decoded
C1_Witness ==
    /\ pc = "html"
    /\ html_text.set
    /\ HtmlInput("tis-620")
    /\ ~Decode("utf-8", InputBytes).ok
    /\ ~Decode("cp874", InputBytes).ok
    /\ \E i \in DOMAIN html_text.text : html_text.text[i] = 3585

HtmlOps == {"open", "utf-8", "cp874", "tis-620", "iso-8859-11", "windows-874",
            "replace", "read_html"}

\* C2: the parsing steps form an ordered chain: the binary parse runs first,
\* an HTML step runs only after it raised, and when it succeeds its Dataset
\* is the one serialized and no HTML step runs.
C2_OrderedFallback ==
    /\ Len(steps) > 0 => steps[1].op = "read_excel"
    /\ (\E i \in DOMAIN steps : steps[i].op \in HtmlOps)
          => steps[1] = Step("read_excel", FALSE)
    /\ (Len(steps) > 0 /\ steps[1].ok) =>
          /\ \A i \in DOMAIN steps : steps[i].op \notin HtmlOps
          /\ df = ReadExcel(disk[input_file]).df
          /\ ~html_text.set /\ html_content = <<>>
          /\ Terminal =>
               /\ pc = "returned"
               /\ variant = "web" => ret = [kind |-> "buffer", val |-> WebCsvBytes(df)]
               /\ variant = "cli" => disk[output_file.name].data = CliCsvBytes(df)

\* a workbook whose bytes also hold an HTML table was converted from the sheet
C2_Witness ==
    /\ pc = "returned"
    /\ steps = <<Step("read_excel", TRUE), Step("to_csv", TRUE)>>
    /\ Len(ReadHtml(InputBytes)) > 0
    /\ df # ReadHtml(InputBytes)[1]

\* the binary parse and the HTML step have both failed
BothFailed ==
    /\ Len(steps) > 0
    /\ steps[1] = Step("read_excel", FALSE)
    /\ \A i \in DOMAIN steps : steps[i] # Step("read_html", TRUE)

\* C8: when the binary parse and the HTML step both fail, the conversion
\* ends in exactly one combined "could not be read" error: the CLI prints
\* one error line, returns None and writes no file; the web converter
\* raises one wrapped exception and returns no buffer.
C8_SingleCombinedError ==
    (Terminal /\ BothFailed) =>
        /\ variant = "cli" =>
             /\ pc = "returned"
             /\ stderr = <<"cannot_read">>
             /\ ret = [kind |-> "none", val |-> <<>>]
             /\ stdout = <<>>
             /\ written = {}
             /\ \A n \in DiskNames \ {input_file} : ~disk[n].exists
        /\ variant = "web" =>
             /\ pc = "raised"
             /\ exc = [type |-> "Exception", msg |-> "convert_error", cause |-> "cannot_read"]
             /\ ret = NoReturn

\* a document without any table has ended the CLI conversion in its error
C8_Witness ==
    /\ Terminal /\ BothFailed
    /\ variant = "cli"
    /\ steps[Len(steps)] = Step("read_html", FALSE)
    /\ stderr = <<"cannot_read">>

\* the bytes a successful conversion has emitted
Emitted ==
    IF variant = "cli" THEN disk[output_file.name].data ELSE ret.val
Succeeded == pc = "returned" /\ ret.kind \in {"path", "buffer"}

\* C9: every successful conversion emits bytes that begin with the UTF-8
\* byte-order mark, once, followed by the header row, in the CLI's file and
\* in the web converter's buffer.
C9_LeadingBom ==
    Succeeded =>
        /\ Len(Emitted) >= 3
        /\ SubSeq(Emitted, 1, 3) = <<239, 187, 191>>
        /\ LET rest == Decode("utf-8", SubSeq(Emitted, 4, Len(Emitted)))
           IN  /\ rest.ok
               /\ rest.text = CsvText(df)
               /\ rest.text[1] # 65279

\* the web converter has returned the CSV of a Thai header from a CP874 page
C9_Witness ==
    /\ Succeeded
    /\ variant = "web"
    /\ df = <<3585>>
    /\ Emitted = <<239, 187, 191, 224, 184, 129, 10>>

\* what the sub-chain is claimed to yield: the first of the five candidates
\* that decodes the buffer, else the UTF-8 decoding with replacement
RECURSIVE FirstDecoding(_, _)
FirstDecoding(order, bs) ==
    IF order = <<>> THEN DecodeReplace(bs)
    ELSE IF RefDecode(Head(order), bs).ok THEN RefDecode(Head(order), bs).text
    ELSE FirstDecoding(Tail(order), bs)

\* C10: the decoding sub-chain yields a text for every byte buffer and never
\* raises: UTF-8, then cp874, tis-620, iso-8859-11, windows-874, the first
\* that decodes, else UTF-8 with replacement characters.
C10_DecodingNeverRaises ==
    /\ ~DecodeRaised
    /\ pc = "html" =>
         /\ html_text.set
         /\ html_text.text =
              FirstDecoding(<<"utf-8", "cp874", "tis-620", "iso-8859-11", "windows-874">>,
                            html_content)

(***************************************************************************)
(* Properties of batch_convert (checked under SpecBatch).                  *)
(***************************************************************************)
Occurrences(q, e) == Cardinality({i \in DOMAIN q : q[i] = e})

\* C7: the batch visits every *.xls entry of the input directory exactly
\* once, one after another, no failure aborts the loop, and when it returns
\* every file that converts has its <stem>.csv written and every file that
\* fails has one error line and no output written.
C7_BatchBestEffort ==
    /\ bpc # "crashed"
    /\ bpc = "call" => (Len(visited) = bi /\ visited[bi] = xls_files[bi])
    /\ (bpc = "done" /\ indir_exists) =>
         /\ \A n \in DirNames : Occurrences(visited, n) = IF n \in Glob(disk) THEN 1 ELSE 0
         /\ \A n \in Glob(disk) :
              LET out == WithSuffixCsv(n)
                  c == Convert(disk[n])
              IN  IF c.ok
                  THEN /\ out \in written
                       /\ disk[out] = File(CliCsvBytes(c.df), "cli")
                  ELSE /\ out \notin written
                       /\ disk[out].owner # "cli"
         /\ Len(stderr) = Cardinality({n \in Glob(disk) : ~Convert(disk[n]).ok})
         /\ Occurrences(stdout, "converted")
               = Cardinality({n \in Glob(disk) : Convert(disk[n]).ok})

\* three .xls files, one of them unreadable: two CSV files, one error line
C7_Witness ==
    /\ bpc = "done"
    /\ Cardinality(Glob(disk)) = 3
    /\ Cardinality(written) = 2
    /\ stderr = <<"cannot_read">>
    /\ \E i \in 1..2 : ~Convert(disk[xls_files[i]]).ok

(***************************************************************************)
(* Properties of the upload service (checked under SpecWeb).               *)
(***************************************************************************)
Done(r) == rq[r].pc = "done"

\* the response to the same upload when no other request runs and no save fails
RECURSIVE AloneEntries(_, _)
AloneEntries(valid, k) ==
    IF k > Len(valid) THEN <<>>
    ELSE LET c == Convert(File(valid[k].data, "self"))
         IN  (IF c.ok
              THEN <<[name |-> WithSuffixCsv(secure_filename(valid[k].filename)),
                      data |-> WebCsvBytes(c.df), of |-> k]>>
              ELSE <<>>) \o AloneEntries(valid, k + 1)

AloneResponse(files) ==
    LET valid == ValidFiles(files)
    IN  IF files = <<>> \/ files[1].filename = <<>> \/ valid = <<>> THEN Json("json400")
        ELSE IF Len(valid) = 1
        THEN LET c == Convert(File(valid[1].data, "self"))
             IN  IF c.ok
                 THEN [kind |-> "csv",
                       name |-> WithSuffixCsv(secure_filename(valid[1].filename)),
                       body |-> WebCsvBytes(c.df), entries |-> <<>>]
                 ELSE Json("json500")
        ELSE [kind |-> "zip", name |-> ZIP_NAME, body |-> <<>>,
              entries |-> AloneEntries(valid, 1)]

\* C3: under any interleaving of concurrent requests, each request's
\* response is the conversion of the bytes this same request uploaded, and
\* no request fails because of another request's activity.
C3_RequestsIsolated ==
    \A r \in Requests :
        (Done(r) /\ ~rq[r].fault) => rq[r].resp = AloneResponse(rq[r].files)

\* C4: every temporary file a request saved into the upload folder has been
\* removed by the time the request is finished, on every exit path.
C4_TempFilesRemoved ==
    \A r \in Requests :
        Done(r) => \A n \in TempNames : ~(fs[n].exists /\ fs[n].owner = r)

\* C5: the response kind is determined by the number of uploaded files with
\* an allowed extension alone: none gives HTTP 400 JSON, one gives the CSV
\* or HTTP 500 JSON when its conversion fails, more give converted_files.zip.
C5_KindByValidCount ==
    \A r \in Requests :
        Done(r) =>
            LET n == Len(ValidFiles(rq[r].files))
                resp == rq[r].resp
            IN  /\ n = 0 => resp.kind = "json400"
                /\ n = 1 => \/ resp.kind = "csv" /\ rq[r].conv.ok
                            \/ resp.kind = "json500" /\ ~rq[r].conv.ok
                /\ n > 1 => resp.kind = "zip" /\ resp.name = ZIP_NAME

\* the entries of a ZIP that holds, in upload order, one entry for each
\* valid file whose conversion succeeded, under the names given
RECURSIVE EntryKeys(_, _, _)
EntryKeys(names, outcomes, k) ==
    IF k > Len(names) THEN <<>>
    ELSE (IF k <= Len(outcomes) /\ outcomes[k]
          THEN <<[name |-> names[k], of |-> k]>>
          ELSE <<>>) \o EntryKeys(names, outcomes, k + 1)

Keys(entries) == [k \in DOMAIN entries |-> [name |-> entries[k].name, of |-> entries[k].of]]

OriginalStems(valid) == [k \in DOMAIN valid |-> WithSuffixCsv(valid[k].filename)]
SecuredStems(valid) ==
    [k \in DOMAIN valid |-> WithSuffixCsv(secure_filename(valid[k].filename))]

\* C6 as stated: the ZIP of a request with several valid files holds exactly
\* one entry per valid file whose conversion succeeded, named
\* <original-stem>.csv; failed and disallowed files give no entry and a
\* failure does not keep later files from being converted and added.
C6_ZipOriginalStems ==
    \A r \in Requests :
        rq[r].resp.kind = "zip" =>
            /\ Len(rq[r].valid) > 1
            /\ rq[r].valid = ValidFiles(rq[r].files)
            /\ Len(rq[r].outcomes) = Len(rq[r].valid)
            /\ Keys(rq[r].resp.entries)
                 = EntryKeys(OriginalStems(rq[r].valid), rq[r].outcomes, 1)

\* C6 (amended): the same, each entry named <stem>.csv after the secured
\* form (secure_filename) of its own input's name.
C6_ZipSecuredStems ==
    \A r \in Requests :
        rq[r].resp.kind = "zip" =>
            /\ Len(rq[r].valid) > 1
            /\ rq[r].valid = ValidFiles(rq[r].files)
            /\ Len(rq[r].outcomes) = Len(rq[r].valid)
            /\ Keys(rq[r].resp.entries)
                 = EntryKeys(SecuredStems(rq[r].valid), rq[r].outcomes, 1)

\* a file that fails, a disallowed file and a Thai-named page were uploaded:
\* the ZIP holds the one entry of the page
C6_Witness ==
    \E r \in Requests :
        /\ rq[r].resp.kind = "zip"
        /\ Len(rq[r].files) = 3
        /\ rq[r].outcomes = <<FALSE, TRUE>>
        /\ Keys(rq[r].resp.entries) = <<[name |-> <<"X", "L", "S", ".", "c", "s", "v">>, of |-> 2]>>

(***************************************************************************)
(* The statement-by-statement converter and its composition agree.         *)
(***************************************************************************)
ConvertAgrees ==
    (Terminal /\ (variant = "web" \/ disk[input_file].exists)) =>
        LET c == Convert(disk[input_file])
        IN  /\ c.ok <=> Succeeded
            /\ c.ok => Emitted = WebCsvBytes(c.df)
====
